---- MODULE Spec2Model ----
(***************************************************************************)
(* Opgaveflytning mellem medarbejdere i Nexus (src/main.py).               *)
(*                                                                         *)
(* populate_queue turns the XFlow processes standing in the activity       *)
(* RPAIntegration into work items; process_workqueue takes the work items  *)
(* one at a time, moves every Nexus task of the source employee to the     *)
(* target employee and advances the XFlow process.                         *)
(*                                                                         *)
(* Python strings are sequences of one-character strings, so that str(),   *)
(* strip(), f-strings and "contains" are computed, not assumed.            *)
(***************************************************************************)
EXTENDS Integers, Sequences, FiniteSets, TLC

\* ------------------------------------------------------------------ bounds
MaxRequests == 2
MaxItems == 2
MaxTasks == 2
MaxRuns == 3

\* ----------------------------------------------------------------- strings
S_AB == <<"A","B">>
S_CD == <<"C","D">>
S_ZZ == <<"Z","Z">>
S_Empty == <<>>
S_Blank == <<" ">>
S_None == <<"N","o","n","e">>
S_Sep == <<" ","-"," ">>
S_Ukendt == <<"U","k","e","n","d","t">>

\* Python's None where a str is expected (no string has an element this long)
PyNone == <<"<None>">>
\* Python's None where a dict is expected
NoneObj == [none |-> TRUE]
\* a local variable that has not been assigned yet
Unbound == [unbound |-> TRUE]

Whitespace == {" "}

\* str(v) of a str or None
Str(v) == IF v = PyNone THEN S_None ELSE v

\* str(o) of a dict or None: only None is ever formatted (line 49)
StrObj(o) == IF o = NoneObj THEN S_None ELSE <<"{", "}">>

RECURSIVE LStrip(_)
LStrip(s) == IF s # <<>> /\ Head(s) \in Whitespace THEN LStrip(Tail(s)) ELSE s

RECURSIVE RStrip(_)
RStrip(s) ==
    IF s # <<>> /\ s[Len(s)] \in Whitespace THEN RStrip(SubSeq(s, 1, Len(s) - 1)) ELSE s

\* s.strip()
Strip(s) == RStrip(LStrip(s))

\* sub in s
Contains(s, sub) ==
    \E i \in 0..(Len(s) - Len(sub)) : SubSeq(s, i + 1, i + Len(sub)) = sub

\* f"Medarbejder med initialer: {x} blev ikke fundet i Nexus"
RejectReason(x) ==
    <<"M","e","d","a","r","b","e","j","d","e","r"," ","m","e","d"," ",
      "i","n","i","t","i","a","l","e","r",":"," ">>
    \o StrObj(x) \o
    <<" ","b","l","e","v"," ","i","k","k","e"," ","f","u","n","d","e","t"," ",
      "i"," ","N","e","x","u","s">>

\* f"{fra} - {til}"
ItemReference(fra, til) == fra \o S_Sep \o til

\* ------------------------------------------------- the external systems
\* Nexus: the employees, by initials
Medarbejdere ==
    (S_AB :> [id |-> 11, fullName |-> <<"A","n","n","a">>,
              primaryIdentifier |-> S_AB, active |-> TRUE])
    @@
    (S_CD :> [id |-> 12, fullName |-> <<"C","a","r","l">>,
              primaryIdentifier |-> S_CD, active |-> TRUE])

\* nexus.organisationer.hent_medarbejder_ved_initialer
hent_medarbejder_ved_initialer(initialer) ==
    IF initialer \in DOMAIN Medarbejdere THEN Medarbejdere[initialer] ELSE NoneObj

\* the professionalAssignee built from an employee
Projection(medarbejder) ==
    [professionalId |-> medarbejder.id,
     displayName |-> medarbejder.fullName,
     displayNameWithUniqId |->
         medarbejder.fullName \o <<" ","(">> \o medarbejder.primaryIdentifier \o <<")">>,
     active |-> medarbejder.active]

\* Nexus: the citizens, by CPR
Borgere == {"0101"}

\* nexus.borgere.hent_borger
hent_borger(cpr) == IF cpr \in Borgere THEN [cpr |-> cpr] ELSE NoneObj

\* Nexus: the ids of the assignments that exist (all of citizen 0101)
OpgaveIds == {1, 2}

InitStore ==
    [i \in OpgaveIds |->
        [id |-> i, cpr |-> "0101", title |-> <<"T", IF i = 1 THEN "1" ELSE "2">>,
         professionalAssignee |-> Projection(Medarbejdere[S_AB])]]

\* hent_opgave_for_borger without the match on the id: the citizen's first
\* assignment
hent_opgave_for_borger_any(st, borger, id) ==
    IF \E i \in DOMAIN st : st[i].cpr = borger.cpr
    THEN st[CHOOSE i \in DOMAIN st :
                /\ st[i].cpr = borger.cpr
                /\ \A h \in DOMAIN st : st[h].cpr = borger.cpr => i <= h]
    ELSE NoneObj

\* nexus.opgaver.hent_opgave_for_borger, on the store st
hent_opgave_for_borger(st, borger, id) ==
    IF id \in DOMAIN st /\ st[id].cpr = borger.cpr THEN st[id] ELSE NoneObj

\* the rows get_tasks_by_professional can return: a task of a citizen Nexus does
\* not know, a task with its assignment in Nexus, a task without one
TaskPool ==
    { [cpr |-> "0909", id |-> 2],
      [cpr |-> "0101", id |-> 1],
      [cpr |-> "0101", id |-> 3] }

SeqsUpTo(S, n) == UNION { [1..m -> S] : m \in 0..n }

\* a query result: rows in some order, no row twice
TaskLists ==
    { s \in SeqsUpTo(TaskPool, MaxTasks) :
        \A i, j \in DOMAIN s : s[i] = s[j] => i = j }

\* the form values of the XFlow processes: FraMedarbejder, TilMedarbejder
\* (PyNone: find_process_element_value finds no value)
RequestKinds ==
    { [fra |-> S_AB, til |-> S_CD],
      [fra |-> S_AB, til |-> S_Empty],
      [fra |-> S_AB, til |-> S_Blank],
      [fra |-> S_AB, til |-> S_ZZ],
      [fra |-> S_AB, til |-> PyNone],
      [fra |-> S_ZZ, til |-> S_CD],
      [fra |-> PyNone, til |-> S_CD] }

RejectTarget == 7

Activities ==
    << [activityName |-> "Anmodning", possibleActivitiesIdsToRejectTo |-> <<>>],
       [activityName |-> "RPAIntegration",
        possibleActivitiesIdsToRejectTo |-> <<RejectTarget>>] >>

\* proces["publicId"] of the process at position i
PublicId(i) == 100 + i

\* how an external call that can fail ends
SaveOutcomes == {"ok", "WorkItemError", "Exception"}
CallOutcomes == {"ok", "Exception"}

Today == "today"

VARIABLES
    processer,      \* XFlow: the processes of template 714, in search order
    queue,          \* the work queue: items [id, data, reference, status]
    nextId,         \* the id the queue gives its next item
    runs,           \* program runs started
    mode,           \* this run: "none", "queue" (--queue) or "process"
    pc,             \* where the run stands
    igang,          \* populate_queue: the processes found by the search (positions in processer)
    idx,            \* populate_queue: position of the for loop in igang
    item,           \* process_workqueue: id of the item in the with block, 0 if none
    opgaver,        \* process_workqueue: opgaver
    k,              \* process_workqueue: position of the for loop in opgaver
    til_medarbejder,\* process_workqueue: til_medarbejder
    nexus_opgave,   \* process_workqueue: nexus_opgave (a local of the function)
    exc,            \* the exception propagating out of the with block, "none" if none
    store,          \* Nexus: the assignments
    log             \* the external calls of this run since the last item was taken

vars == <<processer, queue, nextId, runs, mode, pc, igang, idx, item, opgaver, k,
          til_medarbejder, nexus_opgave, exc, store, log>>

processVars == <<item, opgaver, k, til_medarbejder, nexus_opgave, exc>>
populateVars == <<igang, idx>>

\* ------------------------------------------------------------------- Init
InitProcesser ==
    { [i \in DOMAIN s |->
          [publicId |-> PublicId(i), fra |-> s[i].fra, til |-> s[i].til,
           activities |-> Activities, activity |-> "RPAIntegration",
           formValues |-> <<>>]]
      : s \in SeqsUpTo(RequestKinds, MaxRequests) }

\* the locals of both functions before either has run
InitLocals ==
    /\ runs = 0
    /\ mode = "none"
    /\ pc = "idle"
    /\ igang = <<>>
    /\ idx = 1
    /\ item = 0
    /\ opgaver = <<>>
    /\ k = 1
    /\ til_medarbejder = NoneObj
    /\ nexus_opgave = Unbound
    /\ exc = "none"
    /\ store = InitStore
    /\ log = <<>>

\* the program starts on an empty queue
Init ==
    /\ processer \in InitProcesser
    /\ queue = <<>>
    /\ nextId = 1
    /\ InitLocals

\* to_initials of the items a process run can find in the queue: what populate_queue
\* writes (a str), and JSON null written by another producer
ToKinds == {S_CD, S_Empty, S_Blank, S_ZZ, PyNone}

\* one target of each behaviour of lines 69-78: an employee, no employee, no target
ToClasses == {S_CD, S_ZZ, S_Blank}

\* one request of each behaviour across runs: moved to an employee, no target
\* given, source unknown
RunKinds ==
    { [fra |-> S_AB, til |-> S_CD],
      [fra |-> S_AB, til |-> PyNone],
      [fra |-> S_ZZ, til |-> S_CD] }

\* the program starts on an empty queue, the requests among RunKinds
InitRuns ==
    /\ processer \in
         { [i \in DOMAIN s |->
               [publicId |-> PublicId(i), fra |-> s[i].fra, til |-> s[i].til,
                activities |-> Activities, activity |-> "RPAIntegration",
                formValues |-> <<>>]]
           : s \in SeqsUpTo(RunKinds, MaxRequests) }
    /\ queue = <<>>
    /\ nextId = 1
    /\ InitLocals

\* the program starts on a queue of new items, one for each XFlow process, their
\* to_initials among kinds
InitItemsOf(kinds) ==
    /\ \E tos \in SeqsUpTo(kinds, MaxItems) :
         /\ processer =
              [i \in DOMAIN tos |->
                  [publicId |-> PublicId(i), fra |-> S_AB, til |-> tos[i],
                   activities |-> Activities, activity |-> "RPAIntegration",
                   formValues |-> <<>>]]
         /\ queue =
              [i \in DOMAIN tos |->
                  [id |-> i,
                   data |-> [from_initials |-> S_AB, to_initials |-> tos[i],
                             xflow_process_id |-> PublicId(i)],
                   reference |-> ItemReference(S_AB, Str(tos[i])),
                   status |-> "new"]]
         /\ nextId = Len(tos) + 1
    /\ InitLocals

InitItems == InitItemsOf(ToKinds)

\* ---------------------------------------------------------------- helpers
Append2(s, a, b) == Append(Append(s, a), b)

\* the position in processer of the process with this publicId
PosOf(pid) == pid - 100

\* xflow_process_client.find_process_element_value(proces, element, "Tekst")
find_process_element_value(proces, element) ==
    IF element = "FraMedarbejder" THEN proces.fra ELSE proces.til

\* search_processes_by_current_activity(query, "RPAIntegration"): positions, in order
RECURSIVE SearchFrom(_, _)
SearchFrom(ps, i) ==
    IF i > Len(ps) THEN <<>>
    ELSE (IF ps[i].activity = "RPAIntegration" THEN <<i>> ELSE <<>>) \o SearchFrom(ps, i + 1)

search_processes_by_current_activity(ps) == SearchFrom(ps, 1)

\* next(a["possibleActivitiesIdsToRejectTo"][0] for a in activities if a is RPAIntegration)
FirstRejectTarget(proces) ==
    LET j == CHOOSE j \in DOMAIN proces.activities :
                 /\ proces.activities[j].activityName = "RPAIntegration"
                 /\ \A h \in 1..(j - 1) :
                        proces.activities[h].activityName # "RPAIntegration"
    IN proces.activities[j].possibleActivitiesIdsToRejectTo[1]

\* workqueue.clear_workqueue("new")
\* line 173 left out: the new items stay
keep_workqueue(q) == q

clear_workqueue(q) == SelectSeq(q, LAMBDA it : it.status # "new")

\* workqueue.add_item(data, reference)
add_item(q, id, data, reference) ==
    Append(q, [id |-> id, data |-> data, reference |-> reference, status |-> "new"])

\* the queue with the status of item id set
SetStatus(q, id, st) ==
    [j \in DOMAIN q |-> IF q[j].id = id THEN [q[j] EXCEPT !.status = st] ELSE q[j]]

ItemOf(id) == queue[CHOOSE j \in DOMAIN queue : queue[j].id = id]

\* ------------------------------------------------------ main, --queue mode
\* lines 172-174 and 23-36: clear the new items, search, enter the loop
RunQueueMode ==
    /\ pc = "idle"
    /\ runs < MaxRuns
    /\ runs' = runs + 1
    /\ mode' = "queue"
    /\ queue' = clear_workqueue(queue)
    /\ igang' = search_processes_by_current_activity(processer)
    /\ idx' = 1
    /\ log' = <<>>
    /\ pc' = "populate"
    /\ UNCHANGED <<processer, nextId, store, processVars>>

\* lines 38-61 with continue in the place of the break of line 53
PopulateIterContinue ==
    /\ pc = "populate"
    /\ idx <= Len(igang)
    /\ LET proces == processer[igang[idx]]
           flyt_opgaver_fra_initialer ==
               Str(find_process_element_value(proces, "FraMedarbejder"))
           flyt_opgaver_til_initialer ==
               Str(find_process_element_value(proces, "TilMedarbejder"))
           medarbejder_fra == hent_medarbejder_ved_initialer(flyt_opgaver_fra_initialer)
           lookup == [ev |-> "lookup", initialer |-> flyt_opgaver_fra_initialer,
                      id |-> proces.publicId]
       IN IF medarbejder_fra = NoneObj
          THEN /\ log' = Append2(log, lookup,
                            [ev |-> "reject", id |-> proces.publicId,
                             activity_id |-> FirstRejectTarget(proces),
                             reason |-> RejectReason(medarbejder_fra),
                             initialer |-> flyt_opgaver_fra_initialer])
               /\ processer' = [processer EXCEPT ![igang[idx]].activity = "Rejected"]
               /\ idx' = idx + 1
               /\ UNCHANGED <<queue, nextId, pc>>
          ELSE /\ queue' = add_item(queue, nextId,
                               [from_initials |-> flyt_opgaver_fra_initialer,
                                to_initials |-> flyt_opgaver_til_initialer,
                                xflow_process_id |-> proces.publicId],
                               ItemReference(flyt_opgaver_fra_initialer,
                                             flyt_opgaver_til_initialer))
               /\ nextId' = nextId + 1
               /\ log' = Append2(log, lookup, [ev |-> "add", id |-> proces.publicId])
               /\ idx' = idx + 1
               /\ UNCHANGED <<processer, pc>>
    /\ UNCHANGED <<runs, mode, igang, store, processVars>>

\* lines 38-61: one pass of the loop body
PopulateIter ==
    /\ pc = "populate"
    /\ idx <= Len(igang)
    /\ LET proces == processer[igang[idx]]
           flyt_opgaver_fra_initialer ==
               Str(find_process_element_value(proces, "FraMedarbejder"))
           flyt_opgaver_til_initialer ==
               Str(find_process_element_value(proces, "TilMedarbejder"))
           medarbejder_fra == hent_medarbejder_ved_initialer(flyt_opgaver_fra_initialer)
           lookup == [ev |-> "lookup", initialer |-> flyt_opgaver_fra_initialer,
                      id |-> proces.publicId]
       IN IF medarbejder_fra = NoneObj
          THEN /\ log' = Append2(log, lookup,
                            [ev |-> "reject", id |-> proces.publicId,
                             activity_id |-> FirstRejectTarget(proces),
                             reason |-> RejectReason(medarbejder_fra),
                             initialer |-> flyt_opgaver_fra_initialer])
               /\ processer' = [processer EXCEPT ![igang[idx]].activity = "Rejected"]
               /\ pc' = "idle"
               /\ UNCHANGED <<queue, nextId, idx>>
          ELSE /\ queue' = add_item(queue, nextId,
                               [from_initials |-> flyt_opgaver_fra_initialer,
                                to_initials |-> flyt_opgaver_til_initialer,
                                xflow_process_id |-> proces.publicId],
                               ItemReference(flyt_opgaver_fra_initialer,
                                             flyt_opgaver_til_initialer))
               /\ nextId' = nextId + 1
               /\ log' = Append2(log, lookup, [ev |-> "add", id |-> proces.publicId])
               /\ idx' = idx + 1
               /\ UNCHANGED <<processer, pc>>
    /\ UNCHANGED <<runs, mode, igang, store, processVars>>

\* the loop of lines 38-61 is exhausted: populate_queue returns, exit(0)
PopulateReturn ==
    /\ pc = "populate"
    /\ idx > Len(igang)
    /\ pc' = "idle"
    /\ UNCHANGED <<processer, queue, nextId, runs, mode, igang, idx, store, log,
                   processVars>>

\* ---------------------------------------------------- main, process mode
\* line 178: process_workqueue is entered, its locals are unassigned
RunProcessMode ==
    /\ pc = "idle"
    /\ runs < MaxRuns
    /\ runs' = runs + 1
    /\ mode' = "process"
    /\ pc' = "next_item"
    /\ item' = 0
    /\ opgaver' = <<>>
    /\ k' = 1
    /\ til_medarbejder' = NoneObj
    /\ nexus_opgave' = Unbound
    /\ exc' = "none"
    /\ log' = <<>>
    /\ UNCHANGED <<processer, queue, nextId, store, populateVars>>

\* the first item of the queue that is new, 0 if none
FirstNew(q) ==
    IF \E j \in DOMAIN q : q[j].status = "new"
    THEN q[CHOOSE j \in DOMAIN q :
               /\ q[j].status = "new"
               /\ \A h \in 1..(j - 1) : q[h].status # "new"].id
    ELSE 0

\* line 64: the queue hands out its next new item, in progress, or the loop ends
NextItem ==
    /\ pc = "next_item"
    /\ IF FirstNew(queue) # 0
       THEN /\ item' = FirstNew(queue)
            /\ queue' = SetStatus(queue, FirstNew(queue), "in progress")
            /\ log' = <<>>
            /\ pc' = "item_body"
       ELSE /\ pc' = "idle"
            /\ UNCHANGED <<item, queue, log>>
    /\ UNCHANGED <<processer, nextId, runs, mode, opgaver, k, til_medarbejder,
                   nexus_opgave, exc, store, populateVars>>

\* line 71 without the strip(): only None and "" count as no target
ToInitialsGivenNoStrip(to_initials) ==
    to_initials # PyNone /\ ~(to_initials = S_Empty)

\* line 71 testing for an employee of that name
ToInitialsGivenKnown(to_initials) ==
    to_initials # PyNone /\ to_initials \in DOMAIN Medarbejdere

\* line 71: a target employee is named
ToInitialsGiven(to_initials) ==
    to_initials # PyNone /\ ~(Strip(to_initials) = S_Empty)

\* lines 66-78: the tasks of the source employee, the target employee
ItemBody ==
    /\ pc = "item_body"
    /\ \E db \in CallOutcomes :
       \E tasks \in IF db = "ok" THEN TaskLists ELSE {<<>>} :
         LET data == ItemOf(item).data
             get == [ev |-> "get_tasks", initialer |-> data.from_initials,
                     outcome |-> db]
             lookup == [ev |-> "lookup", initialer |-> data.to_initials]
             medarbejder == hent_medarbejder_ved_initialer(data.to_initials)
         IN IF db # "ok"
            THEN \* get_tasks_by_professional raises
                 /\ exc' = "Exception"
                 /\ pc' = "item_exit"
                 /\ log' = Append(log, get)
                 /\ opgaver' = <<>>
                 /\ UNCHANGED <<k, til_medarbejder>>
            ELSE IF ~ToInitialsGiven(data.to_initials)
            THEN /\ opgaver' = tasks
                 /\ til_medarbejder' = NoneObj
                 /\ k' = 1
                 /\ log' = Append(log, get)
                 /\ pc' = "task_loop"
                 /\ exc' = "none"
            ELSE IF medarbejder = NoneObj
            THEN \* medarbejder["id"] of None
                 /\ opgaver' = tasks
                 /\ exc' = "TypeError"
                 /\ pc' = "item_exit"
                 /\ log' = Append2(log, get, lookup)
                 /\ UNCHANGED <<k, til_medarbejder>>
            ELSE /\ opgaver' = tasks
                 /\ til_medarbejder' = Projection(medarbejder)
                 /\ k' = 1
                 /\ log' = Append2(log, get, lookup)
                 /\ pc' = "task_loop"
                 /\ exc' = "none"
    /\ UNCHANGED <<processer, queue, nextId, runs, mode, item, nexus_opgave, store,
                   populateVars>>

\* line 104: the exceptions the handler of the task loop catches
Caught(e) == e = "WorkItemError"

\* lines 105-112: the handler; no is nexus_opgave as the handler finds it
ExceptHandler(opgave, no) ==
    IF no = Unbound
    THEN [exc |-> "UnboundLocalError", events |-> <<>>]
    ELSE [exc |-> "none",
          events |-> << [ev |-> "report", cpr |-> opgave.cpr, fejl |-> "redigere",
                         navn |-> IF no # NoneObj /\ "title" \in DOMAIN no
                                  THEN no.title ELSE S_Ukendt] >>]

\* lines 81-112: one task. The result: the exception that leaves the loop ("none":
\* the loop goes on), nexus_opgave and the store afterwards, the calls made
TaskBody(opgave, no, til, st, save) ==
    LET borger == hent_borger(opgave.cpr)
        fundet == hent_opgave_for_borger(st, borger, opgave.id)
        ny == [fundet EXCEPT !.professionalAssignee = til]
        attempt == [ev |-> "attempt", cpr |-> opgave.cpr, id |-> opgave.id]
    IN IF borger = NoneObj
       THEN \* line 85: raise WorkItemError
            LET h == ExceptHandler(opgave, no)
            IN [exc |-> h.exc, nexus_opgave |-> no, store |-> st,
                events |-> <<attempt>> \o h.events]
       ELSE IF fundet = NoneObj
       THEN \* lines 89-98: report, continue
            [exc |-> "none", nexus_opgave |-> NoneObj, store |-> st,
             events |-> <<attempt, [ev |-> "report", cpr |-> opgave.cpr,
                                    fejl |-> "finde"]>>]
       ELSE IF save = "ok"
       THEN \* lines 100-103
            [exc |-> "none", nexus_opgave |-> ny, store |-> [st EXCEPT ![ny.id] = ny],
             events |-> <<attempt, [ev |-> "save", opgave |-> ny], [ev |-> "track"]>>]
       ELSE IF Caught(save)
       THEN LET h == ExceptHandler(opgave, ny)
            IN [exc |-> h.exc, nexus_opgave |-> ny, store |-> st,
                events |-> <<attempt, [ev |-> "save_raised", opgave |-> ny]>> \o h.events]
       ELSE [exc |-> save, nexus_opgave |-> ny, store |-> st,
             events |-> <<attempt, [ev |-> "save_raised", opgave |-> ny]>>]

\* lines 80-112: one pass of the task loop
TaskIter ==
    /\ pc = "task_loop"
    /\ k <= Len(opgaver)
    /\ \E save \in IF hent_borger(opgaver[k].cpr) # NoneObj
                     /\ hent_opgave_for_borger(store, hent_borger(opgaver[k].cpr),
                                               opgaver[k].id) # NoneObj
                  THEN SaveOutcomes ELSE {"ok"} :
         LET r == TaskBody(opgaver[k], nexus_opgave, til_medarbejder, store, save)
         IN /\ nexus_opgave' = r.nexus_opgave
            /\ store' = r.store
            /\ log' = log \o r.events
            /\ exc' = r.exc
            /\ IF r.exc = "none"
               THEN k' = k + 1 /\ pc' = "task_loop"
               ELSE k' = k /\ pc' = "item_exit"
    /\ UNCHANGED <<processer, queue, nextId, runs, mode, item, opgaver,
                   til_medarbejder, populateVars>>

\* lines 113-126
blanket_data ==
    [formValues |->
        << [elementIdentifier |-> "RPASignatur", valueIdentifier |-> "Tekst",
            value |-> "Behandlet af Tyra (RPA)"],
           [elementIdentifier |-> "RPABehandletDato", valueIdentifier |-> "Dato",
            value |-> Today] >>]

\* lines 113-128 reached one task early: the loop is left before its last row
UpdateProcessEarly ==
    /\ pc = "task_loop"
    /\ k >= Len(opgaver)
    /\ \E outcome \in CallOutcomes :
         LET id == ItemOf(item).data.xflow_process_id
             call == [ev |-> "update", id |-> id, data |-> blanket_data,
                      outcome |-> outcome]
         IN /\ log' = Append(log, call)
            /\ IF outcome = "ok"
               THEN /\ processer' = [processer EXCEPT
                                        ![PosOf(id)].formValues = blanket_data.formValues]
                    /\ pc' = "advance"
                    /\ exc' = "none"
               ELSE /\ exc' = outcome
                    /\ pc' = "item_exit"
                    /\ UNCHANGED processer
    /\ UNCHANGED <<queue, nextId, runs, mode, item, opgaver, k, til_medarbejder,
                   nexus_opgave, store, populateVars>>

\* lines 113-128 with the failure of update_process swallowed: line 129 follows
UpdateProcessSwallow ==
    /\ pc = "task_loop"
    /\ k > Len(opgaver)
    /\ \E outcome \in CallOutcomes :
         LET id == ItemOf(item).data.xflow_process_id
             call == [ev |-> "update", id |-> id, data |-> blanket_data,
                      outcome |-> outcome]
         IN /\ log' = Append(log, call)
            /\ pc' = "advance"
            /\ exc' = "none"
            /\ IF outcome = "ok"
               THEN processer' = [processer EXCEPT
                                     ![PosOf(id)].formValues = blanket_data.formValues]
               ELSE UNCHANGED processer
    /\ UNCHANGED <<queue, nextId, runs, mode, item, opgaver, k, til_medarbejder,
                   nexus_opgave, store, populateVars>>

\* lines 113-128: the task loop is exhausted, the form fields are written
UpdateProcess ==
    /\ pc = "task_loop"
    /\ k > Len(opgaver)
    /\ \E outcome \in CallOutcomes :
         LET id == ItemOf(item).data.xflow_process_id
             call == [ev |-> "update", id |-> id, data |-> blanket_data,
                      outcome |-> outcome]
         IN /\ log' = Append(log, call)
            /\ IF outcome = "ok"
               THEN /\ processer' = [processer EXCEPT
                                        ![PosOf(id)].formValues = blanket_data.formValues]
                    /\ pc' = "advance"
                    /\ exc' = "none"
               ELSE /\ exc' = outcome
                    /\ pc' = "item_exit"
                    /\ UNCHANGED processer
    /\ UNCHANGED <<queue, nextId, runs, mode, item, opgaver, k, til_medarbejder,
                   nexus_opgave, store, populateVars>>

\* line 129 with the failure of advance_process swallowed
AdvanceProcessSwallow ==
    /\ pc = "advance"
    /\ \E outcome \in CallOutcomes :
         LET id == ItemOf(item).data.xflow_process_id
             call == [ev |-> "advance", id |-> id, outcome |-> outcome]
         IN /\ log' = Append(log, call)
            /\ pc' = "item_exit"
            /\ exc' = "none"
            /\ IF outcome = "ok"
               THEN processer' = [processer EXCEPT ![PosOf(id)].activity = "Next"]
               ELSE UNCHANGED processer
    /\ UNCHANGED <<queue, nextId, runs, mode, item, opgaver, k, til_medarbejder,
                   nexus_opgave, store, populateVars>>

\* line 129 with a failure of advance_process ending the run (as sys.exit would):
\* the with block and the loop of line 64 are left at once
AdvanceProcessAbort ==
    /\ pc = "advance"
    /\ \E outcome \in CallOutcomes :
         LET id == ItemOf(item).data.xflow_process_id
             call == [ev |-> "advance", id |-> id, outcome |-> outcome]
         IN /\ log' = Append(log, call)
            /\ IF outcome = "ok"
               THEN /\ processer' = [processer EXCEPT ![PosOf(id)].activity = "Next"]
                    /\ exc' = "none"
                    /\ pc' = "item_exit"
               ELSE /\ exc' = "none"
                    /\ pc' = "idle"
                    /\ UNCHANGED processer
    /\ UNCHANGED <<queue, nextId, runs, mode, item, opgaver, k, til_medarbejder,
                   nexus_opgave, store, populateVars>>

\* line 129
AdvanceProcess ==
    /\ pc = "advance"
    /\ \E outcome \in CallOutcomes :
         LET id == ItemOf(item).data.xflow_process_id
             call == [ev |-> "advance", id |-> id, outcome |-> outcome]
         IN /\ log' = Append(log, call)
            /\ pc' = "item_exit"
            /\ IF outcome = "ok"
               THEN /\ processer' = [processer EXCEPT ![PosOf(id)].activity = "Next"]
                    /\ exc' = "none"
               ELSE /\ exc' = outcome
                    /\ UNCHANGED processer
    /\ UNCHANGED <<queue, nextId, runs, mode, item, opgaver, k, til_medarbejder,
                   nexus_opgave, store, populateVars>>

\* line 65, leaving the with block: the item is completed, or failed when an
\* exception leaves the block; the loop of line 64 goes on
ItemExit ==
    /\ pc = "item_exit"
    /\ queue' = SetStatus(queue, item, IF exc = "none" THEN "completed" ELSE "failed")
    /\ exc' = "none"
    /\ pc' = "next_item"
    /\ UNCHANGED <<processer, nextId, runs, mode, item, opgaver, k, til_medarbejder,
                   nexus_opgave, store, log, populateVars>>

\* ------------------------------------------------------------------- Next
Next ==
    \/ RunQueueMode
    \/ PopulateIter
    \/ PopulateReturn
    \/ RunProcessMode
    \/ NextItem
    \/ ItemBody
    \/ TaskIter
    \/ UpdateProcess
    \/ AdvanceProcess
    \/ ItemExit

Spec == Init /\ [][Next]_vars

\* runs of the program in either mode, in any order
SpecRuns == InitRuns /\ [][Next]_vars

\* runs of the program in --queue mode only
NextPopulate ==
    \/ RunQueueMode
    \/ PopulateIter
    \/ PopulateReturn

SpecPopulate == Init /\ [][NextPopulate]_vars

\* runs of the program in process mode only
NextProcess ==
    \/ RunProcessMode
    \/ NextItem
    \/ ItemBody
    \/ TaskIter
    \/ UpdateProcess
    \/ AdvanceProcess
    \/ ItemExit

SpecProcess == InitItems /\ [][NextProcess]_vars

\* the program never stops by itself while a call can return: every step that is
\* enabled is eventually taken (no external call hangs)
SpecProcessFair ==
    InitItemsOf(ToClasses) /\ [][NextProcess]_vars /\ WF_vars(NextProcess)

\* ------------------------------------------------- what the claims speak of
\* the calls of kind ev in the log
Events(ev) == { i \in DOMAIN log : log[i].ev = ev }
Count(ev) == Cardinality(Events(ev))

\* the with block of item has been left; the log holds the calls made for it
ItemDone == mode = "process" /\ pc \in {"next_item", "idle"} /\ item # 0

\* get_tasks_by_professional returned its rows for item
TasksReturned == \E i \in Events("get_tasks") : log[i].outcome = "ok"

\* to_initials is None, empty or whitespace only
BlankOrAbsent(to) == to = PyNone \/ \A i \in DOMAIN to : to[i] = " "

\* the task loop of item was entered: the rows were returned and lines 69-78 did
\* not raise
LoopEntered ==
    /\ TasksReturned
    /\ LET to == ItemOf(item).data.to_initials
       IN BlankOrAbsent(to) \/ to \in DOMAIN Medarbejdere

\* the task loop of item ran through all its rows
LoopCompleted == LoopEntered /\ k > Len(opgaver)

UpdateOk == \E i \in Events("update") : log[i].outcome = "ok"
AdvanceOk == \E i \in Events("advance") : log[i].outcome = "ok"

\* the rows of opgaver whose citizen Nexus does not know
MissingCitizen == { i \in DOMAIN opgaver : opgaver[i].cpr \notin Borgere }
\* the rows of opgaver whose citizen and assignment Nexus knows
Findable ==
    { i \in DOMAIN opgaver :
        opgaver[i].cpr \in Borgere /\ opgaver[i].id \in DOMAIN InitStore }

\* the populate pass of this run is over
PopulateDone == mode = "queue" /\ pc = "idle"

\* the source initials of the process at position i, as populate_queue reads them
SourceOf(i) == Str(processer[i].fra)
Unresolved(i) == SourceOf(i) \notin DOMAIN Medarbejdere

RejectsOf(pid) == { i \in Events("reject") : log[i].id = pid }
NewItemsOf(pid) ==
    { j \in DOMAIN queue :
        queue[j].status = "new" /\ queue[j].data.xflow_process_id = pid }

\* ------------------------------------------------------------------ claims

\* C1: when the with block of a work item whose task loop was entered has been
\* left, the loop has made one attempt for each task returned, however the tasks
\* failed. (Stated here for the items none of whose saves raised: the claim
\* covers them, and a missing citizen or assignment is then the only failure.)
C1_AttemptsEqualTasks ==
    (ItemDone /\ LoopEntered /\ Count("save_raised") = 0) =>
        Count("attempt") = Len(opgaver)

\* C2, as claimed: when the with block of a work item has been left, advance_process
\* was called if and only if the task loop ran to completion.
C2_AdvancedIffLoopCompleted ==
    ItemDone => (Count("advance") > 0 <=> LoopCompleted)

\* C2, amended: when the with block of a work item has been left, advance_process
\* was called (once, on the item's xflow_process_id) if and only if the task loop
\* ran to completion and the update_process that follows it returned; otherwise it
\* was not called.
C2_AdvancedIffLoopCompletedAndUpdated ==
    ItemDone =>
        /\ Count("advance") > 0 <=> (LoopCompleted /\ UpdateOk)
        /\ Count("advance") <= 1
        /\ \A i \in Events("advance") : log[i].id = ItemOf(item).data.xflow_process_id

\* C2, the case: a loop over at least one task, one of them reported, ran to
\* completion, the form fields were written and advance_process was called
C2_Witness ==
    /\ ItemDone
    /\ LoopCompleted
    /\ Len(opgaver) >= 1
    /\ Count("report") >= 1
    /\ UpdateOk
    /\ Count("advance") = 1

\* C3: when a populate pass is over, every process the search returned whose source
\* initials resolve to no employee has been rejected exactly once and has no work
\* item.
C3_EveryUnresolvedRejected ==
    PopulateDone =>
        \A n \in DOMAIN igang :
            Unresolved(igang[n]) =>
                /\ Cardinality(RejectsOf(processer[igang[n]].publicId)) = 1
                /\ NewItemsOf(processer[igang[n]].publicId) = {}

\* C4: when the with block of a work item has been left whose tasks all have their
\* citizen and assignment in Nexus and whose saves all raised, there is one report
\* for each task and no track, the form fields were written, and the instance was
\* advanced and the item completed unless update_process or advance_process raised.
C4_FailedSavesAreRecovered ==
    ( /\ ItemDone
      /\ LoopEntered
      /\ Len(opgaver) >= 1
      /\ Findable = DOMAIN opgaver
      /\ Count("save") = 0
      /\ Count("save_raised") = Count("attempt") )
    =>
        /\ Count("report") = Len(opgaver)
        /\ Count("track") = 0
        /\ Count("update") = 1
        /\ UpdateOk => Count("advance") = 1
        /\ (UpdateOk /\ AdvanceOk) => ItemOf(item).status = "completed"

\* C5: when the with block of a work item has been left whose tasks either have no
\* citizen in Nexus or have citizen and assignment, and no save, update_process or
\* advance_process raised, there is one report for each task without citizen, one
\* save and one track for each other task, and one advance_process call.
C5_MissingCitizensAreReported ==
    ( /\ ItemDone
      /\ LoopEntered
      /\ MissingCitizen \cup Findable = DOMAIN opgaver
      /\ Count("save_raised") = 0
      /\ \A i \in Events("update") \cup Events("advance") : log[i].outcome = "ok" )
    =>
        /\ Count("report") = Cardinality(MissingCitizen)
        /\ Count("save") = Cardinality(Findable)
        /\ Count("track") = Cardinality(Findable)
        /\ Count("advance") = 1

\* C6: while and after a work item whose to_initials is None, empty or whitespace
\* is processed, every assignment saved for it has professionalAssignee None, in the
\* call and in the store, and the employee directory has not been asked.
C6_BlankTargetUnassigns ==
    (mode = "process" /\ item # 0 /\ BlankOrAbsent(ItemOf(item).data.to_initials)) =>
        /\ Count("lookup") = 0
        /\ \A i \in Events("save") :
              /\ log[i].opgave.professionalAssignee = NoneObj
              /\ store[log[i].opgave.id].professionalAssignee = NoneObj

\* C6, the case: a work item with a whitespace to_initials has had a task saved
C6_Witness ==
    /\ ItemDone
    /\ ItemOf(item).data.to_initials = S_Blank
    /\ Count("save") >= 1
    /\ \A i \in Events("save") : store[log[i].opgave.id].professionalAssignee = NoneObj

\* C7: the reason of every reject_process call contains the initials that did not
\* resolve.
C7_ReasonNamesInitials ==
    \A i \in Events("reject") : Contains(log[i].reason, log[i].initialer)

InBlock == pc \in {"item_body", "task_loop", "advance", "item_exit"}
Terminal(st) == st \in {"completed", "failed"}
InstanceOf(it) == processer[PosOf(it.data.xflow_process_id)]

C8_State ==
    /\ \A j \in DOMAIN queue :
          /\ queue[j].status \in {"new", "in progress", "completed", "failed"}
          /\ queue[j].status = "in progress" => (InBlock /\ queue[j].id = item)
          /\ queue[j].status = "completed" => InstanceOf(queue[j]).activity = "Next"
          /\ queue[j].status = "failed" => InstanceOf(queue[j]).activity # "Next"
    /\ InBlock => ItemOf(item).status = "in progress"

C8_Step ==
    /\ DOMAIN queue' = DOMAIN queue
    /\ \A j \in DOMAIN queue :
          /\ queue'[j].id = queue[j].id
          /\ queue'[j].data = queue[j].data
          /\ \/ queue'[j].status = queue[j].status
             \/ queue[j].status = "new" /\ queue'[j].status = "in progress"
             \/ queue[j].status = "in progress" /\ Terminal(queue'[j].status)

\* C8: in process mode every work item goes new -> in progress -> completed or
\* failed and nowhere else: the item of the with block is in progress exactly while
\* the block is executed, so every way out of the block leaves it completed or
\* failed; completed and failed are never left; a completed item's instance was
\* advanced, a failed item's was not.
C8_ItemLifeCycle == [](C8_State) /\ [][C8_Step]_vars

\* C8, the case: an item failed by advance_process raising after the form fields
\* were written, and another item completed
C8_Witness ==
    /\ \E j \in DOMAIN queue :
          /\ queue[j].status = "failed"
          /\ InstanceOf(queue[j]).formValues # <<>>
          /\ InstanceOf(queue[j]).activity = "RPAIntegration"
    /\ \E j \in DOMAIN queue : queue[j].status = "completed"

AllTerminal == \A j \in DOMAIN queue : Terminal(queue[j].status)

\* C9: once a process run has started, it comes to its end with every work item of
\* the queue completed or failed, whichever calls raised on the way.
C9_RunDrainsQueue == (pc # "idle") ~> (pc = "idle" /\ AllTerminal)

\* C9, the case: the run went on after the first item failed and completed the
\* second
C9_Witness ==
    /\ pc = "idle"
    /\ mode = "process"
    /\ Len(queue) >= 2
    /\ queue[1].status = "failed"
    /\ queue[2].status = "completed"

\* the last attempt logged before position i: the task the call at i is made for
AttemptBefore(i) ==
    log[CHOOSE a \in Events("attempt") :
            a < i /\ \A b \in Events("attempt") : b < i => b <= a]

\* C11: of the calls made for a work item, every task attempt comes before the
\* update_process call; there is at most one update_process call and it writes
\* RPASignatur and RPABehandletDato to the item's xflow_process_id; there is at most
\* one advance_process call, on the same id, made only after every task returned
\* was attempted and after an update_process call that returned.
C11_CallOrder ==
    (mode = "process" /\ item # 0) =>
        /\ Count("update") <= 1
        /\ Count("advance") <= 1
        /\ \A u \in Events("update") :
              /\ \A a \in Events("attempt") : a < u
              /\ log[u].id = ItemOf(item).data.xflow_process_id
              /\ Len(log[u].data.formValues) = 2
              /\ log[u].data.formValues[1].elementIdentifier = "RPASignatur"
              /\ log[u].data.formValues[2].elementIdentifier = "RPABehandletDato"
        /\ \A v \in Events("advance") :
              /\ log[v].id = ItemOf(item).data.xflow_process_id
              /\ Count("attempt") = Len(opgaver)
              /\ \A a \in Events("attempt") : a < v
              /\ \E u \in Events("update") : u < v /\ log[u].outcome = "ok"

\* C11, the case: two tasks were attempted, then the form fields written, then the
\* instance advanced
C11_Witness ==
    /\ ItemDone
    /\ Count("attempt") = 2
    /\ UpdateOk
    /\ AdvanceOk
    /\ log[Len(log)].ev = "advance"
    /\ log[Len(log) - 1].ev = "update"

\* the place in igang of the first process whose source does not resolve,
\* Len(igang) + 1 if there is none
FirstUnresolved ==
    IF \E n \in DOMAIN igang : Unresolved(igang[n])
    THEN CHOOSE n \in DOMAIN igang :
             /\ Unresolved(igang[n])
             /\ \A h \in 1..(n - 1) : ~Unresolved(igang[h])
    ELSE Len(igang) + 1

LookupsOf(pid) == { i \in Events("lookup") : log[i].id = pid }

\* C12: when a populate pass is over, the queue holds one new item for each
\* process found before the first one whose source does not resolve, in the order
\* of the search; that process is rejected once; the processes after it have no
\* item, no rejection and no lookup.
C12_StopsAtFirstUnresolved ==
    PopulateDone =>
        LET f == FirstUnresolved
            pid(n) == processer[igang[n]].publicId
        IN /\ [j \in DOMAIN queue |-> queue[j].data.xflow_process_id]
                = [n \in 1..(f - 1) |-> pid(n)]
           /\ \A j \in DOMAIN queue : queue[j].status = "new"
           /\ \A n \in DOMAIN igang :
                 /\ n < f => RejectsOf(pid(n)) = {}
                 /\ n = f => (Cardinality(RejectsOf(pid(n))) = 1 /\ NewItemsOf(pid(n)) = {})
                 /\ n > f => /\ RejectsOf(pid(n)) = {}
                             /\ NewItemsOf(pid(n)) = {}
                             /\ LookupsOf(pid(n)) = {}

\* C12, the case: the first process found does not resolve and another follows it
C12_Witness ==
    /\ PopulateDone
    /\ Len(igang) >= 2
    /\ FirstUnresolved = 1
    /\ Count("reject") = 1
    /\ Count("lookup") = 1
    /\ queue = <<>>

\* C13: when the with block of a work item whose task loop was entered has been
\* left, every attempt has given one track or one report and not both: tracks and
\* saves that returned are as many, and tracks and reports together are as many as
\* the attempts. (Stated for the items none of whose saves raised.)
C13_OneEventPerAttempt ==
    (ItemDone /\ LoopEntered /\ Count("save_raised") = 0) =>
        /\ Count("track") = Count("save")
        /\ Count("track") + Count("report") = Count("attempt")

\* the title of the assignment Nexus holds for a task, Ukendt if it holds none
TitleFor(t) ==
    IF t.cpr \in Borgere /\ t.id \in DOMAIN InitStore /\ InitStore[t.id].cpr = t.cpr
    THEN InitStore[t.id].title
    ELSE S_Ukendt

\* C14: every report of the handler carries the CPR of the task it is made for and
\* the title of the assignment resolved for that task, Ukendt if none was; and the
\* handler never fails itself.
C14_ReportNamesOwnTask ==
    /\ exc # "UnboundLocalError"
    /\ \A i \in Events("report") :
          log[i].fejl = "redigere" =>
              /\ log[i].cpr = AttemptBefore(i).cpr
              /\ log[i].navn = TitleFor(AttemptBefore(i))

\* C10: when a populate pass is over, every process the search returned whose
\* source initials resolve to an employee has exactly one new work item, carrying
\* its initials and its publicId.
C10_EveryEligibleEnqueued ==
    PopulateDone =>
        \A n \in DOMAIN igang :
            ~Unresolved(igang[n]) =>
                LET p == processer[igang[n]]
                IN /\ Cardinality(NewItemsOf(p.publicId)) = 1
                   /\ \A j \in NewItemsOf(p.publicId) :
                         queue[j].data = [from_initials |-> Str(p.fra),
                                          to_initials |-> Str(p.til),
                                          xflow_process_id |-> p.publicId]

\* the ids of the assignments of the tasks returned for the current item
TaskIdsReturned == { opgaver[j].id : j \in DOMAIN opgaver }

C15_Step ==
    /\ DOMAIN store' = DOMAIN store
    /\ \A id \in DOMAIN store :
          store'[id] # store[id] =>
              /\ mode = "process"
              /\ id \in TaskIdsReturned
              /\ store'[id] =
                   [store[id] EXCEPT !.professionalAssignee =
                                        store'[id].professionalAssignee]
    /\ (pc # "populate" /\ pc' # "populate") =>
          /\ DOMAIN queue' = DOMAIN queue
          /\ \A j \in DOMAIN queue : queue'[j].data = queue[j].data

\* C15: no step of populate_queue changes an assignment; a step of
\* process_workqueue changes at most the professionalAssignee of assignments of
\* tasks returned for the current item, every other field and every other
\* assignment staying as it was, and leaves the payload of every work item as it
\* was.
C15_OnlyAssigneeChanges == [][C15_Step]_vars

\* C15, the case: after a populate run, a process run has moved assignment 1 to
\* another employee, its other fields and assignment 2 as they were
C15_Witness ==
    /\ ItemDone
    /\ runs >= 2
    /\ store[1].professionalAssignee = Projection(Medarbejdere[S_CD])
    /\ store[1].title = InitStore[1].title
    /\ store[2] = InitStore[2]

\* to_initials of the current item names no employee and is not blank
TargetUnresolved ==
    LET to == ItemOf(item).data.to_initials
    IN ~BlankOrAbsent(to) /\ to \notin DOMAIN Medarbejdere

\* C16: for a work item whose to_initials is not blank and names no employee,
\* no assignment is saved, no track and no report is made, the instance is neither
\* written nor advanced, and the item ends failed.
C16_UnresolvedTargetFailsItem ==
    (mode = "process" /\ item # 0 /\ TargetUnresolved) =>
        /\ Count("attempt") = 0
        /\ Count("save") = 0
        /\ Count("save_raised") = 0
        /\ Count("track") = 0
        /\ Count("report") = 0
        /\ Count("update") = 0
        /\ Count("advance") = 0
        /\ InstanceOf(ItemOf(item)).activity = "RPAIntegration"
        /\ InstanceOf(ItemOf(item)).formValues = <<>>
        /\ ItemDone => ItemOf(item).status = "failed"

\* C16, the case: tasks were returned for an item whose target ZZ is unknown, the
\* lookup was made and the item has ended
C16_Witness ==
    /\ ItemDone
    /\ ItemOf(item).data.to_initials = S_ZZ
    /\ TasksReturned
    /\ Len(opgaver) >= 1
    /\ Count("lookup") = 1
    /\ ItemOf(item).status = "failed"

RequestTarget(it) == InstanceOf(it).til

\* C18: an item made for a request without TilMedarbejder has a blank or absent
\* to_initials, and processing it makes no lookup for the target and saves
\* professionalAssignee = None.
C18_MissingTargetStaysBlank ==
    /\ \A j \in DOMAIN queue :
          RequestTarget(queue[j]) = PyNone => BlankOrAbsent(queue[j].data.to_initials)
    /\ (mode = "process" /\ item # 0 /\ RequestTarget(ItemOf(item)) = PyNone) =>
          /\ Count("lookup") = 0
          /\ exc # "TypeError"
          /\ \A i \in Events("save") : log[i].opgave.professionalAssignee = NoneObj

====
